---------------------------- MODULE Spec2Model ----------------------------
(***************************************************************************)
(* State-machine model of compound-monitor (src/src/main.rs): one process  *)
(* invocation, from CompoundMonitor::new through the entry point selected  *)
(* by the command line (monitor loop, supply, withdraw, balance).          *)
(*                                                                         *)
(* Every network call (contract read, transaction submission, confirmation *)
(* wait, webhook post) is one action whose outcome is drawn from a small   *)
(* set; the synchronous code between two awaits belongs to the action of   *)
(* the await that precedes it.                                             *)
(*                                                                         *)
(* Strings of decimal digits are sequences over 0..9; NonDigit stands for  *)
(* any other character.  Option<T> is a sequence of length at most one.    *)
(* 128- and 256-bit integer types are scaled down to small ranges that     *)
(* keep their order: 0 < U128Max < I256Max < U256Max.                      *)
(***************************************************************************)
EXTENDS Integers, Sequences, FiniteSets

\* ---------------------------------------------------------------- bounds
\* Token amounts read from the chain or given in the configuration: 0..MaxVal.
MaxVal == 2
\* Scaled stand-in for u128::MAX.
U128Max == 3
\* Consecutive failed iterations of the monitor loop are counted up to MaxFails.
MaxFails == 2
\* monitor_address.json holds at most MaxEntries entries.
MaxEntries == 2
\* The formatter on its own is applied to raw amounts 0..MaxRaw.
MaxRaw == 120
\* ... and to the divisors 0..MaxDivisor, and to 100.
MaxDivisor == 12

\* Scaled stand-ins for I256::MAX, I256::MIN and U256::MAX.
I256Max == 2 * U128Max + 1
I256Min == 0 - I256Max - 1
U256Max == 2 * I256Max + 1

\* ------------------------------------------------------- options, strings
None == <<>>
Some(v) == <<v>>
IsSome(o) == Len(o) = 1
Unwrap(o) == o[1]
UnwrapOr(o, d) == IF IsSome(o) THEN o[1] ELSE d

\* The first value past the digits 0..9.
NonDigit == 9 + 1

RECURSIVE to_string(_)
\* U256 Display: the decimal digits of n, most significant first, no padding.
to_string(n) == IF n < 10 THEN <<n>> ELSE to_string(n \div 10) \o <<n % 10>>

RECURSIVE FromDecStrAcc(_, _)
\* U256::from_dec_str: digit by digit; Err (None) on a non-digit character
\* or when the value leaves the 256-bit range.
FromDecStrAcc(s, acc) ==
    IF s = <<>> THEN Some(acc)
    ELSE IF Head(s) > 9 THEN None
    ELSE IF acc * 10 + Head(s) > U256Max THEN None
    ELSE FromDecStrAcc(Tail(s), acc * 10 + Head(s))

FromDecStr(s) == FromDecStrAcc(s, 0)

\* ------------------------------------------------------------ input sets
Amounts == 0 .. MaxVal
\* Decimal strings found in config.json / on the command line.
AmountStrings == {to_string(v) : v \in Amounts} \cup {<<NonDigit>>}
\* Values the contract's bookkeeping reads return.
SupplyInputs == {1, MaxVal}
BorrowInputs == {0, 1}
\* Raw int256 reserves: negative, zero, positive, and beyond the u128 range.
ReservesInputs == {I256Min, -1, 0, 1, U128Max + 1}
V2ReservesInputs == {0, 1}
UtilizationInputs == {0, 1, U128Max + 1}
RateInputs == {0, 1}
V2Symbols == {"cDAI", "cETH"}
MarketNames == {None, Some("Comet")}
BaseTokens == {"USDC"}
\* Credentials: the one given with --private-key, the one in config.json.
FlagKeys == {"flagkey", "flagbad"}
ConfigKeys == {"cfgkey", "cfgbad"}
\* The token allowance the signer has granted to the market, on chain.
Allowances == Amounts \cup {U256Max}
\* Addresses given to the balance command: one that parses, one that does not.
GoodAddress == "0xA11CE"
BadAddress == "not-an-address"
\* Entries of monitor_address.json (lines 116-120).
MonitorAddresses ==
    {[name |-> "alice", address |-> GoodAddress],
     [name |-> "bob", address |-> BadAddress]}
AddressLists ==
    UNION {[1..n -> MonitorAddresses] : n \in 0..MaxEntries}
\* decimals() of the base token (u8): in range of 10^d as u128, and beyond it.
DecimalsInputs == {1, 39, 128}
\* Raw balances of the wallet and of the Compound position.
WalletBalances == {0, 15}
CompoundBalances == {5}
\* Arguments the formatter is applied to on its own.
FmtBalances == 0 .. MaxRaw
FmtDivisors == (0 .. MaxDivisor) \cup {100}

\* ----------------------------------------------------------------- state
VARIABLES
    config,          \* Config loaded from config.json (lines 101-114)
    cli,             \* parsed command line (lines 66-99)
    pc,              \* position of the process
    threshold,       \* CompoundMonitor.threshold, set by new (line 173)
    locals,          \* values bound so far in the running check_liquidity_v2/_v3
    result,          \* Option: what check_liquidity returned in this iteration
    alert,           \* Option: the LiquidityAlert built in this iteration
    calls,           \* network calls issued in this iteration / invocation, in order
    posted,          \* alerts handed to the webhook in this iteration, in order
    send_ret,        \* Option: what send_alert returned in this iteration
    fails,           \* history: consecutive iterations whose read failed (saturating)
    args,            \* Option: (amount, private_key) of the running supply_v3 / withdraw_v3
    txs,             \* transactions submitted in this invocation, in order
    chain_allowance, \* on chain: base-token allowance of the signer to the market
    exit_err,        \* Option: the error main returned
    checks,          \* history: calls of check_liquidity in this iteration
    address_file,    \* Option: the entries of monitor_address.json (None: unreadable)
    idx,             \* check_balance_batch: position of the entry being looked up
    reports,         \* what each finished check_balance logged or returned, in order
    fmt              \* the formatter on its own: its arguments and Option result

vars == <<config, cli, pc, threshold, locals, result, alert, calls, posted,
          send_ret, fails, args, txs, chain_allowance, exit_err, checks,
          address_file, idx, reports, fmt>>

\* What only the balance entry point and the formatter touch.
balvars == <<address_file, idx, reports, fmt>>

\* What the monitor loop never touches.
txvars == <<args, txs, chain_allowance>>
TxCommands == {Some("Supply"), Some("Withdraw")}
\* What supply_v3 / withdraw_v3 never touch.
runvars == <<result, alert, posted, send_ret, fails>>

Call(f, okay) == [fn |-> f, ok |-> okay]
Ok(liq, bor, res, sym) ==
    [ok |-> TRUE, liquidity |-> liq, borrows |-> bor, reserves |-> res, symbol |-> sym]
Err(e) == [ok |-> FALSE, err |-> e]

Configs ==
    [compound_version : {"V2", "V3"},
     market_address_ok : BOOLEAN,
     market_name : MarketNames,
     liquidity_threshold : AmountStrings,
     notification_enabled : {None, Some(TRUE), Some(FALSE)},
     private_key : {None} \cup {Some(k) : k \in ConfigKeys}]

Clis ==
    {[command |-> None], [command |-> Some("Monitor")]}
    \cup [command : {Some("Supply"), Some("Withdraw")},
          amount : AmountStrings,
          private_key : {None} \cup {Some(k) : k \in FlagKeys}]
    \cup [command : {Some("Balance")},
          address : {None, Some(GoodAddress), Some(BadAddress)}]

\* The state after Cli::parse and Config::load (lines 563-566).  What only
\* supply_v3 / withdraw_v3 read (the configured key, the allowance on chain)
\* varies only when one of them is the command; so does monitor_address.json
\* for the balance command without --address, which in turn reads neither
\* the market's name nor the notification flag.
Init ==
    /\ config \in Configs
    /\ cli \in Clis
    /\ cli.command \notin TxCommands => config.private_key = None
    /\ cli.command = Some("Balance") =>
         (config.market_name = None /\ config.notification_enabled = None)
    /\ address_file \in IF cli.command = Some("Balance") /\ cli.address = None
                         THEN {None} \cup {Some(l) : l \in AddressLists}
                         ELSE {None}
    /\ idx = 0
    /\ reports = <<>>
    /\ fmt = None
    /\ checks = 0
    /\ pc = "new"
    /\ threshold = 0
    /\ locals = <<>>
    /\ result = None
    /\ alert = None
    /\ calls = <<>>
    /\ posted = <<>>
    /\ send_ret = None
    /\ fails = 0
    /\ args = None
    /\ txs = <<>>
    /\ chain_allowance \in IF cli.command \in TxCommands THEN Allowances ELSE {0}
    /\ exit_err = None

\* CompoundMonitor::new: parse the threshold once.
New ==
    /\ pc = "new"
    /\ LET t == FromDecStr(config.liquidity_threshold) IN
         IF IsSome(t)
         THEN /\ threshold' = Unwrap(t)
              /\ pc' = "main_match"
              /\ UNCHANGED exit_err
         ELSE /\ pc' = "exit_err"
              /\ exit_err' = Some("Invalid liquidity threshold")
              /\ UNCHANGED threshold
    /\ UNCHANGED <<balvars, checks, config, cli, locals, result, alert, calls, posted, send_ret, fails, txvars>>

\* main returns Err(e).
Fail(e) ==
    /\ pc' = "exit_err"
    /\ exit_err' = Some(e)

\* Mutant: after the selected entry point has returned, main goes on into
\* the monitor loop.
MainReturns_IntoRun == "run_tick"

\* Line 616: main returns Ok(()) once the selected entry point has returned.
MainReturns == "exit_ok"

\* Mutant: the configuration's key is preferred to the flag's.
ResolveKey_ConfigFirst(flag, cfgkey) == IF IsSome(cfgkey) THEN cfgkey ELSE flag

\* Lines 580-581 and 595-596: the flag's key, or else the configuration's.
ResolveKey(flag, cfgkey) == IF IsSome(flag) THEN flag ELSE cfgkey

\* Mutant: the version is not checked.
TxPrecheck_AnyVersion(c, cfg) ==
    IF ~IsSome(FromDecStr(c.amount)) THEN Some("Invalid amount")
    ELSE IF ~IsSome(ResolveKey(c.private_key, cfg.private_key))
         THEN Some("Private key not provided")
    ELSE None

\* Lines 572-582 (587-597): what stops a supply / withdraw command before
\* supply_v3 / withdraw_v3 is called; None when nothing does.
TxPrecheck(c, cfg) ==
    IF ~IsSome(FromDecStr(c.amount)) THEN Some("Invalid amount")
    ELSE IF cfg.compound_version # "V3"
         THEN Some("Supply/withdraw is only supported for Compound V3")
    ELSE IF ~IsSome(ResolveKey(c.private_key, cfg.private_key))
         THEN Some("Private key not provided")
    ELSE None

\* main's match on cli.command: the monitor arm.
MainMonitor ==
    /\ pc = "main_match"
    /\ cli.command \in {None, Some("Monitor")}
    /\ pc' = "run_tick"
    /\ UNCHANGED <<balvars, checks, config, cli, threshold, locals, result, alert, calls, posted,
                   send_ret, fails, txvars, exit_err>>

\* main's match on cli.command: the supply and withdraw arms, up to the call
\* of supply_v3 / withdraw_v3.
MainTx ==
    /\ pc = "main_match"
    /\ cli.command \in TxCommands
    /\ LET e == TxPrecheck(cli, config) IN
         IF IsSome(e)
         THEN /\ Fail(Unwrap(e))
              /\ UNCHANGED args
         ELSE /\ args' = Some([amount |-> Unwrap(FromDecStr(cli.amount)),
                               private_key |->
                                   Unwrap(ResolveKey(cli.private_key, config.private_key))])
              /\ pc' = IF cli.command = Some("Supply") THEN "supply_v3" ELSE "withdraw_v3"
              /\ UNCHANGED exit_err
    /\ UNCHANGED <<balvars, checks, config, cli, threshold, locals, calls, txs, chain_allowance, runvars>>

\* Mutant: the alert and the record of what was sent outlive the iteration.
Tick_AlertOutlives ==
    /\ pc = "run_tick"
    /\ pc' = "check_liquidity"
    /\ locals' = <<>>
    /\ result' = None
    /\ calls' = <<>>
    /\ send_ret' = None
    /\ checks' = 0
    /\ UNCHANGED <<alert, posted>>
    /\ UNCHANGED <<balvars, config, cli, threshold, fails, txvars, exit_err>>

\* run: interval.tick().await completes; a new iteration starts.
Tick ==
    /\ pc = "run_tick"
    /\ pc' = "check_liquidity"
    /\ locals' = <<>>
    /\ result' = None
    /\ alert' = None
    /\ calls' = <<>>
    /\ posted' = <<>>
    /\ send_ret' = None
    /\ checks' = 0
    /\ UNCHANGED <<balvars, config, cli, threshold, fails, txvars, exit_err>>

\* check_liquidity returns r to run's match (what the call had bound stays
\* on record until the next iteration).
Return(r) ==
    /\ result' = Some(r)
    /\ pc' = "run_match"

\* Mutant: a failed read yields zero and the sequence goes on.
Read_ContinueOnError(at, f, inputs, e, next) ==
    /\ pc = at
    /\ \/ /\ calls' = Append(calls, Call(f, FALSE))
          /\ locals' = Append(locals, 0)
       \/ \E v \in inputs :
            /\ calls' = Append(calls, Call(f, TRUE))
            /\ locals' = Append(locals, v)
    /\ pc' = next
    /\ UNCHANGED result
    /\ UNCHANGED <<balvars, checks, config, cli, threshold, alert, posted, send_ret, fails,
                   txvars, exit_err>>

\* One contract read of check_liquidity_v2 / _v3 at position `at`: it fails
\* (the ? returns the error), or yields v, which is bound and `next` follows.
Read(at, f, inputs, e, next) ==
    /\ pc = at
    /\ \/ /\ calls' = Append(calls, Call(f, FALSE))
          /\ Return(Err(e))
          /\ UNCHANGED locals
       \/ \E v \in inputs :
            /\ calls' = Append(calls, Call(f, TRUE))
            /\ locals' = Append(locals, v)
            /\ pc' = next
            /\ UNCHANGED result
    /\ UNCHANGED <<balvars, checks, config, cli, threshold, alert, posted, send_ret, fails, txvars, exit_err>>

\* check_liquidity: parse the market address, dispatch on the version.
CheckLiquidity ==
    /\ pc = "check_liquidity"
    /\ IF ~config.market_address_ok
       THEN Return(Err("Invalid market address"))
       ELSE /\ pc' = IF config.compound_version = "V2"
                     THEN "v2_get_cash" ELSE "v3_base_token"
            /\ UNCHANGED result
    /\ checks' = checks + 1
    /\ UNCHANGED locals
    /\ UNCHANGED <<balvars, config, cli, threshold, alert, calls, posted, send_ret, fails,
                   txvars, exit_err>>

\* ------------------------------------------------------ check_liquidity_v2
V2GetCash ==
    Read("v2_get_cash", "getCash", Amounts,
         "Failed to get cash (V2)", "v2_total_borrows")

V2TotalBorrows ==
    Read("v2_total_borrows", "totalBorrows", BorrowInputs,
         "Failed to get total borrows (V2)", "v2_total_reserves")

V2TotalReserves ==
    Read("v2_total_reserves", "totalReserves", V2ReservesInputs,
         "Failed to get total reserves (V2)", "v2_symbol")

\* locals of check_liquidity_v2, in the order they are bound.
cash(l) == l[1]
borrows(l) == l[2]
reserves(l) == l[3]
symbol(l) == l[4]

\* Mutant: borrows and reserves change places.
V2Snapshot_Swapped(l) == Ok(cash(l), reserves(l), borrows(l), symbol(l))

\* The tuple check_liquidity_v2 returns (line 229).
V2Snapshot(l) == Ok(cash(l), borrows(l), reserves(l), symbol(l))

\* The last read; on success the function returns its tuple.
V2Symbol ==
    /\ pc = "v2_symbol"
    /\ \/ /\ calls' = Append(calls, Call("symbol", FALSE))
          /\ Return(Err("Failed to get symbol (V2)"))
          /\ UNCHANGED locals
       \/ \E v \in V2Symbols :
            /\ calls' = Append(calls, Call("symbol", TRUE))
            /\ locals' = Append(locals, v)
            /\ Return(V2Snapshot(locals'))
    /\ UNCHANGED <<balvars, checks, config, cli, threshold, alert, posted, send_ret, fails, txvars, exit_err>>

\* ------------------------------------------------------ check_liquidity_v3
\* locals of check_liquidity_v3, in the order they are bound.
base_token_address(l) == l[1]
contract_balance(l) == l[2]
total_supply(l) == l[3]
total_borrow(l) == l[4]
reserves_i256(l) == l[5]
utilization(l) == l[6]
supply_rate(l) == l[7]
borrow_rate(l) == l[8]

\* as_u128 (I256 at line 258, U256 at line 289) panics on a value that does
\* not fit 128 bits.
AsU128Panics(x) == x > U128Max

\* Mutant: a negative value is reinterpreted as unsigned.
ReservesToU256_Wrapped(r) == IF r >= 0 THEN r ELSE r + U256Max + 1

\* Lines 257-261: a non-negative value goes through as_u128, a negative one
\* becomes zero.
ReservesToU256(r) == IF r >= 0 THEN r ELSE 0

\* Mutant: the market's bookkeeping figure instead of the token balance.
AvailableLiquidity_Bookkeeping(l) == total_supply(l) - total_borrow(l)

\* Line 264.
AvailableLiquidity(l) == contract_balance(l)

\* Lines 281-282.
V3SymbolOf(cfg) == UnwrapOr(cfg.market_name, "cUSDCv3")

\* The tuple check_liquidity_v3 returns (line 296).
V3Snapshot(l, cfg) ==
    Ok(AvailableLiquidity(l), total_borrow(l), ReservesToU256(reserves_i256(l)),
       V3SymbolOf(cfg))

V3BaseToken ==
    Read("v3_base_token", "baseToken", BaseTokens,
         "Failed to get base token address (V3)", "v3_balance_of")

V3BalanceOf ==
    Read("v3_balance_of", "balanceOf", Amounts,
         "Failed to get contract balance (V3)", "v3_total_supply")

V3TotalSupply ==
    Read("v3_total_supply", "totalSupply", SupplyInputs,
         "Failed to get total supply (V3)", "v3_total_borrow")

V3TotalBorrow ==
    Read("v3_total_borrow", "totalBorrow", BorrowInputs,
         "Failed to get total borrow (V3)", "v3_get_reserves")

\* getReserves and the conversion that follows it (lines 253-261).
V3GetReserves ==
    /\ pc = "v3_get_reserves"
    /\ \/ /\ calls' = Append(calls, Call("getReserves", FALSE))
          /\ Return(Err("Failed to get reserves (V3)"))
          /\ UNCHANGED locals
       \/ \E v \in ReservesInputs :
            /\ calls' = Append(calls, Call("getReserves", TRUE))
            /\ locals' = Append(locals, v)
            /\ pc' = IF v >= 0 /\ AsU128Panics(v)
                     THEN "panicked" ELSE "v3_get_utilization"
            /\ UNCHANGED result
    /\ UNCHANGED <<balvars, checks, config, cli, threshold, alert, posted, send_ret, fails, txvars, exit_err>>

V3GetUtilization ==
    Read("v3_get_utilization", "getUtilization", UtilizationInputs,
         "Failed to get utilization (V3)", "v3_get_supply_rate")

V3GetSupplyRate ==
    Read("v3_get_supply_rate", "getSupplyRate", RateInputs,
         "Failed to get supply rate (V3)", "v3_get_borrow_rate")

\* The last read, then lines 276-296: the APYs and the utilization percentage
\* are only logged; utilization.as_u128() may panic; the tuple is returned.
V3GetBorrowRate ==
    /\ pc = "v3_get_borrow_rate"
    /\ \/ /\ calls' = Append(calls, Call("getBorrowRate", FALSE))
          /\ Return(Err("Failed to get borrow rate (V3)"))
          /\ UNCHANGED locals
       \/ \E v \in RateInputs :
            /\ calls' = Append(calls, Call("getBorrowRate", TRUE))
            /\ locals' = Append(locals, v)
            /\ IF AsU128Panics(utilization(locals))
               THEN /\ pc' = "panicked"
                    /\ UNCHANGED result
               ELSE Return(V3Snapshot(locals', config))
    /\ UNCHANGED <<balvars, checks, config, cli, threshold, alert, posted, send_ret, fails, txvars, exit_err>>

\* ---------------------------------------------------------------- run
\* Mutant: the comparison admits equality.
BelowThreshold_OrEqual(liquidity, thr) == liquidity <= thr

\* Line 516.
BelowThreshold(liquidity, thr) == liquidity < thr

\* Mutant: an absent flag counts as disabled.
NotificationsOn_DefaultOff(cfg) == UnwrapOr(cfg.notification_enabled, FALSE)

\* Lines 505 and 537.
NotificationsOn(cfg) == UnwrapOr(cfg.notification_enabled, TRUE)

\* Lines 522-534 (the timestamp, the wall clock's reading, is left out).
LiquidityAlert(cfg, snap, thr) ==
    [market_address |-> "market",
     market_symbol |-> snap.symbol,
     available_liquidity |-> to_string(snap.liquidity),
     total_borrows |-> to_string(snap.borrows),
     total_reserves |-> to_string(snap.reserves),
     threshold |-> to_string(thr),
     message |-> <<to_string(snap.liquidity), to_string(thr)>>]

\* Mutant: a read error ends run.
AfterMatch_ExitOnError(r, cfg, thr) ==
    IF ~r.ok THEN "exit_err"
    ELSE IF BelowThreshold(r.liquidity, thr) /\ NotificationsOn(cfg)
    THEN "send_alert" ELSE "run_tick"

\* Mutant: a failed read is retried at once.
AfterMatch_RetryOnError(r, cfg, thr) ==
    IF ~r.ok THEN "check_liquidity"
    ELSE IF BelowThreshold(r.liquidity, thr) /\ NotificationsOn(cfg)
    THEN "send_alert" ELSE "run_tick"

\* Where run goes after the match arm that handles r (lines 514-549).
AfterMatch(r, cfg, thr) ==
    IF r.ok /\ BelowThreshold(r.liquidity, thr) /\ NotificationsOn(cfg)
    THEN "send_alert" ELSE "run_tick"

\* run's match on the result of check_liquidity.
RunMatch ==
    /\ pc = "run_match"
    /\ LET r == Unwrap(result) IN
         /\ alert' = IF r.ok /\ BelowThreshold(r.liquidity, threshold)
                     THEN Some(LiquidityAlert(config, r, threshold))
                     ELSE None
         /\ pc' = AfterMatch(r, config, threshold)
         /\ fails' = IF r.ok THEN 0
                     ELSE IF fails < MaxFails THEN fails + 1 ELSE fails
    /\ UNCHANGED <<balvars, checks, config, cli, threshold, locals, result, calls, posted,
                   send_ret, txvars, exit_err>>

\* ---------------------------------------------------------- send_alert
Responses == {"network_error", "success", "non_success"}

\* Mutant: a non-success status is an error too.
SendAlertReturns_StatusChecked(response) == IF response = "success" THEN "Ok" ELSE "Err"

\* Lines 302-315: only a failed request is an error.
SendAlertReturns(response) == IF response = "network_error" THEN "Err" ELSE "Ok"

\* Mutant: run propagates the error of send_alert.
AfterSend_Propagate(ret) == IF ret = "Err" THEN "exit_err" ELSE "run_tick"

\* Where run goes once send_alert has returned ret (lines 538-540).
AfterSend(ret) == "run_tick"

\* send_alert(alert), and run's handling of what it returns.
SendAlert ==
    /\ pc = "send_alert"
    /\ \E response \in Responses :
         /\ posted' = Append(posted, Unwrap(alert))
         /\ calls' = Append(calls, Call("post", response # "network_error"))
         /\ send_ret' = Some([response |-> response, ret |-> SendAlertReturns(response)])
         /\ pc' = AfterSend(SendAlertReturns(response))
    /\ UNCHANGED <<balvars, checks, config, cli, threshold, locals, result, alert, fails, txvars, exit_err>>

\* ------------------------------------------------ supply_v3, withdraw_v3
\* private_key.parse::<LocalWallet>() succeeds.
KeyValid(k) == k \in {"flagkey", "cfgkey"}

\* Mutant: an allowance equal to the amount is taken as insufficient.
NeedsApprove_OrEqual(allowance, amount) == allowance <= amount

\* Line 339.
NeedsApprove(allowance, amount) == allowance < amount

\* Line 341: U256::MAX.
ApproveAmount == U256Max

\* pending_tx.await: a transport error, no receipt (the transaction was
\* dropped), or a receipt, of a transaction that succeeded or reverted.
WaitOutcomes == {"error", "dropped", "mined_ok", "mined_reverted"}

\* Lines 343, 351, 381: `pending_tx.await?.context(..)?` yields a receipt.
HasReceipt(outcome) == outcome \in {"mined_ok", "mined_reverted"}

Wait(f, outcome) == [fn |-> f, ok |-> HasReceipt(outcome), status |-> outcome]

\* Lines 321-330 (363-372): the wallet, the signing client, the market address.
TxBegin(at, next) ==
    /\ pc = at
    /\ IF ~KeyValid(Unwrap(args).private_key) THEN Fail("Invalid private key")
       ELSE IF ~config.market_address_ok THEN Fail("invalid market address")
       ELSE /\ pc' = next
            /\ UNCHANGED exit_err
    /\ UNCHANGED <<balvars, checks, config, cli, threshold, locals, calls, txvars, runvars>>

\* contract.base_token().call().await? (lines 333, 375).
TxBaseToken(at, next) ==
    /\ pc = at
    /\ \/ /\ calls' = Append(calls, Call("baseToken", FALSE))
          /\ Fail("call failed: baseToken")
          /\ UNCHANGED locals
       \/ \E v \in BaseTokens :
            /\ calls' = Append(calls, Call("baseToken", TRUE))
            /\ locals' = <<v>>
            /\ pc' = next
            /\ UNCHANGED exit_err
    /\ UNCHANGED <<balvars, checks, config, cli, threshold, txvars, runvars>>

\* tx.send().await? : the transaction t is submitted, or the submission fails.
TxSend(at, f, t, next) ==
    /\ pc = at
    /\ \/ /\ calls' = Append(calls, Call(f, FALSE))
          /\ Fail("send failed")
          /\ UNCHANGED txs
       \/ /\ calls' = Append(calls, Call(f, TRUE))
          /\ txs' = Append(txs, t)
          /\ pc' = next
          /\ UNCHANGED exit_err
    /\ UNCHANGED <<balvars, checks, config, cli, threshold, locals, args, chain_allowance, runvars>>

\* Mutant: the outcome of the wait is ignored.
AfterWait_Ignored(o, next) == next

\* Where the function goes on outcome o of a confirmation wait.
AfterWait(o, next) == IF HasReceipt(o) THEN next ELSE "exit_err"

SupplyBegin == TxBegin("supply_v3", "supply_base_token")

SupplyBaseToken == TxBaseToken("supply_base_token", "supply_allowance")

\* Lines 337-339: read the allowance, decide whether to approve.
SupplyAllowance ==
    /\ pc = "supply_allowance"
    /\ \/ /\ calls' = Append(calls, Call("allowance", FALSE))
          /\ Fail("call failed: allowance")
          /\ UNCHANGED locals
       \/ /\ calls' = Append(calls, Call("allowance", TRUE))
          /\ locals' = Append(locals, chain_allowance)
          /\ pc' = IF NeedsApprove(chain_allowance, Unwrap(args).amount)
                   THEN "approve_send" ELSE "supply_send"
          /\ UNCHANGED exit_err
    /\ UNCHANGED <<balvars, checks, config, cli, threshold, txvars, runvars>>

\* Lines 341-342.
ApproveSend ==
    TxSend("approve_send", "approve.send",
           [fn |-> "approve", spender |-> "market", amount |-> ApproveAmount,
            signer |-> Unwrap(args).private_key],
           "approve_wait")

\* Lines 343-344; a successful approve sets the allowance on chain.
ApproveWait ==
    /\ pc = "approve_wait"
    /\ \E o \in WaitOutcomes :
         /\ calls' = Append(calls, Wait("approve.wait", o))
         /\ chain_allowance' = IF o = "mined_ok" THEN txs[Len(txs)].amount
                               ELSE chain_allowance
         /\ pc' = AfterWait(o, "supply_send")
         /\ exit_err' = IF HasReceipt(o) THEN exit_err
                        ELSE IF o = "dropped" THEN Some("Approve transaction failed")
                        ELSE Some("wait failed")
    /\ UNCHANGED <<balvars, checks, config, cli, threshold, locals, args, txs, runvars>>

\* Lines 349-350.
SupplySend ==
    TxSend("supply_send", "supply.send",
           [fn |-> "supply", asset |-> locals[1], amount |-> Unwrap(args).amount,
            signer |-> Unwrap(args).private_key],
           "supply_wait")

\* The wait that ends supply_v3 / withdraw_v3 (lines 351-357, 381-387); main
\* returns what the function returns.
FinalWait(at, f, e) ==
    /\ pc = at
    /\ \E o \in WaitOutcomes :
         /\ calls' = Append(calls, Wait(f, o))
         /\ pc' = AfterWait(o, MainReturns)
         /\ exit_err' = IF HasReceipt(o) THEN exit_err
                        ELSE IF o = "dropped" THEN Some(e)
                        ELSE Some("wait failed")
    /\ UNCHANGED <<balvars, checks, config, cli, threshold, locals, txvars, runvars>>

SupplyWait == FinalWait("supply_wait", "supply.wait", "Supply transaction failed")

WithdrawBegin == TxBegin("withdraw_v3", "withdraw_base_token")

\* Mutant: withdraw checks the allowance as supply does.
WithdrawBaseToken_ThenAllowance == TxBaseToken("withdraw_base_token", "supply_allowance")

WithdrawBaseToken == TxBaseToken("withdraw_base_token", "withdraw_send")

\* Lines 379-380.
WithdrawSend ==
    TxSend("withdraw_send", "withdraw.send",
           [fn |-> "withdraw", asset |-> locals[1], amount |-> Unwrap(args).amount,
            signer |-> Unwrap(args).private_key],
           "withdraw_wait")

WithdrawWait == FinalWait("withdraw_wait", "withdraw.wait", "Withdraw transaction failed")

\* ------------------------------------------------------- format_balance
\* The character '.', past the digits and NonDigit.
Dot == NonDigit + 1

RECURSIVE PadZeros(_, _)
\* format!("{:0width$}", ..): zeros on the left up to width, never a cut.
PadZeros(s, width) == IF Len(s) >= width THEN s ELSE PadZeros(<<0>> \o s, width)

\* Mutant: trailing zeros are kept.
TrimEndZeros_Kept(s) == s

RECURSIVE TrimEndZeros(_)
\* trim_end_matches('0').
TrimEndZeros(s) ==
    IF s # <<>> /\ s[Len(s)] = 0 THEN TrimEndZeros(SubSeq(s, 1, Len(s) - 1)) ELSE s

\* Mutant: the remainder is printed without its leading zeros.
FractionDigits_Unpadded(remainder, divisor) == TrimEndZeros(to_string(remainder))

\* Lines 467-468: the remainder, padded to one digit less than the divisor
\* has, without its trailing zeros.
FractionDigits(remainder, divisor) ==
    TrimEndZeros(PadZeros(to_string(remainder), Len(to_string(divisor)) - 1))

\* format_balance (lines 455-475).
format_balance(balance, divisor) ==
    IF divisor = 0 THEN to_string(balance)
    ELSE LET whole == balance \div divisor
             remainder == balance % divisor
         IN  IF remainder = 0 THEN to_string(whole)
             ELSE LET trimmed == FractionDigits(remainder, divisor) IN
                    IF trimmed = <<>> THEN to_string(whole)
                    ELSE to_string(whole) \o <<Dot>> \o trimmed

\* The formatter applied to one pair of arguments.
FormatBalance ==
    /\ pc = "format_balance"
    /\ fmt' = Some([balance |-> Unwrap(fmt).balance,
                    divisor |-> Unwrap(fmt).divisor,
                    out |-> Some(format_balance(Unwrap(fmt).balance,
                                                Unwrap(fmt).divisor))])
    /\ pc' = "formatted"
    /\ UNCHANGED <<config, cli, threshold, locals, calls, checks, address_file, idx,
                   reports, txvars, runvars, exit_err>>

\* ------------------------------------ check_balance, check_balance_batch
\* address.parse::<H160>() succeeds (line 391).
AddressValid(a) == a = GoodAddress

\* The (address, name) the running check_balance was called with (lines 604, 442).
Target ==
    IF IsSome(cli.address)
    THEN [address |-> Unwrap(cli.address), name |-> None]
    ELSE [address |-> Unwrap(address_file)[idx].address,
          name |-> Some(Unwrap(address_file)[idx].name)]

BalanceErr(e) ==
    [ok |-> FALSE, name |-> Target.name, address |-> Target.address, err |-> e]

\* locals of check_balance, in the order they are bound.
base_token(l) == l[1]
token_symbol(l) == l[2]
decimals(l) == l[3]
wallet_balance(l) == l[4]
compound_balance(l) == l[5]

\* 10^d mod 2^128 for a d with 10^d past u128: 0 from d = 128 on, and below
\* that a value that is no power of ten (7 stands for it).
WrappedPow10(d) == IF d >= 128 THEN 0 ELSE 7

\* Line 411, 10u128.pow(decimals as u32): exact up to 10^38; past u128 a
\* build with overflow checks panics (None) and one without them wraps.
Divisors(d) == IF d <= 38 THEN {Some(10 ^ d)} ELSE {None, Some(WrappedPow10(d))}

\* Lines 412-425: what check_balance logs before it returns Ok.
BalanceReport(l, divisor) ==
    [ok |-> TRUE, name |-> Target.name, address |-> Target.address,
     symbol |-> token_symbol(l), decimals |-> decimals(l),
     wallet_formatted |-> format_balance(wallet_balance(l), divisor),
     compound_formatted |-> format_balance(compound_balance(l), divisor),
     wallet_balance |-> wallet_balance(l),
     compound_balance |-> compound_balance(l)]

\* Mutant: the batch gives up at the first entry that fails.
AfterEntry_AbortOnError(r, more) ==
    IF ~r.ok THEN "exit_err" ELSE IF more THEN "check_balance" ELSE MainReturns

\* check_balance_batch after the entry whose lookup returned r (lines
\* 441-452): the next entry, or Ok(()) after the last one.
AfterEntry(r, more) == IF more THEN "check_balance" ELSE MainReturns

\* check_balance returns r: to main's `?` (line 604), or to the match of
\* check_balance_batch (lines 442-449), which logs it and goes on.
BalanceReturn(r) ==
    IF IsSome(cli.address)
    THEN /\ IF r.ok
            THEN /\ pc' = MainReturns
                 /\ reports' = Append(reports, r)
                 /\ UNCHANGED exit_err
            ELSE /\ Fail(r.err)
                 /\ UNCHANGED reports
         /\ UNCHANGED idx
    ELSE /\ reports' = Append(reports, r)
         /\ idx' = idx + 1
         /\ pc' = AfterEntry(r, idx < Len(Unwrap(address_file)))
         /\ UNCHANGED exit_err

\* main's match on cli.command: the balance arm, up to the first call of
\* check_balance (lines 601-609, 431-439).
MainBalance ==
    /\ pc = "main_match"
    /\ cli.command = Some("Balance")
    /\ IF IsSome(cli.address)
       THEN /\ pc' = "check_balance"
            /\ UNCHANGED <<idx, exit_err>>
       ELSE IF ~IsSome(address_file)
       THEN /\ Fail("Failed to read monitor_address.json")
            /\ UNCHANGED idx
       ELSE IF Unwrap(address_file) = <<>>
       THEN /\ pc' = MainReturns
            /\ UNCHANGED <<idx, exit_err>>
       ELSE /\ pc' = "check_balance"
            /\ idx' = 1
            /\ UNCHANGED exit_err
    /\ UNCHANGED <<config, cli, threshold, locals, calls, checks, address_file,
                   reports, fmt, txvars, runvars>>

\* check_balance, lines 391-394: the two addresses are parsed.
CheckBalance ==
    /\ pc = "check_balance"
    /\ locals' = <<>>
    /\ calls' = <<>>
    /\ IF ~AddressValid(Target.address)
       THEN BalanceReturn(BalanceErr("Invalid address"))
       ELSE IF ~config.market_address_ok
       THEN BalanceReturn(BalanceErr("invalid market address"))
       ELSE /\ pc' = "balance_base_token"
            /\ UNCHANGED <<idx, reports, exit_err>>
    /\ UNCHANGED <<config, cli, threshold, checks, address_file, fmt, txvars, runvars>>

\* One contract read of check_balance at position `at` (the ? returns the
\* error), followed by `next`.
BalanceRead(at, f, inputs, e, next) ==
    /\ pc = at
    /\ \/ /\ calls' = Append(calls, Call(f, FALSE))
          /\ BalanceReturn(BalanceErr(e))
          /\ UNCHANGED locals
       \/ \E v \in inputs :
            /\ calls' = Append(calls, Call(f, TRUE))
            /\ locals' = Append(locals, v)
            /\ pc' = next
            /\ UNCHANGED <<idx, reports, exit_err>>
    /\ UNCHANGED <<config, cli, threshold, checks, address_file, fmt, txvars, runvars>>

BalanceBaseToken ==
    BalanceRead("balance_base_token", "baseToken", BaseTokens,
                "call failed: baseToken", "balance_symbol")

BalanceSymbol ==
    BalanceRead("balance_symbol", "symbol", BaseTokens,
                "call failed: symbol", "balance_decimals")

BalanceDecimals ==
    BalanceRead("balance_decimals", "decimals", DecimalsInputs,
                "call failed: decimals", "balance_wallet")

BalanceWallet ==
    BalanceRead("balance_wallet", "token.balanceOf", WalletBalances,
                "call failed: token.balanceOf", "balance_compound")

\* The last read, then lines 411-427: the divisor, the two formatted
\* amounts, the report.
BalanceCompound ==
    /\ pc = "balance_compound"
    /\ \/ /\ calls' = Append(calls, Call("comet.balanceOf", FALSE))
          /\ BalanceReturn(BalanceErr("call failed: comet.balanceOf"))
          /\ UNCHANGED locals
       \/ \E v \in CompoundBalances :
            /\ calls' = Append(calls, Call("comet.balanceOf", TRUE))
            /\ locals' = Append(locals, v)
            /\ \E divisor \in Divisors(decimals(locals)) :
                 IF IsSome(divisor)
                 THEN BalanceReturn(BalanceReport(locals', Unwrap(divisor)))
                 ELSE /\ pc' = "panicked"
                      /\ UNCHANGED <<idx, reports, exit_err>>
    /\ UNCHANGED <<config, cli, threshold, checks, address_file, fmt, txvars, runvars>>

\* The monitor entry point: main's monitor arm, run, check_liquidity, send_alert.
MonitorNext ==
    \/ New
    \/ MainMonitor
    \/ Tick
    \/ CheckLiquidity
    \/ V2GetCash
    \/ V2TotalBorrows
    \/ V2TotalReserves
    \/ V2Symbol
    \/ V3BaseToken
    \/ V3BalanceOf
    \/ V3TotalSupply
    \/ V3TotalBorrow
    \/ V3GetReserves
    \/ V3GetUtilization
    \/ V3GetSupplyRate
    \/ V3GetBorrowRate
    \/ RunMatch
    \/ SendAlert

\* The supply and withdraw entry points.
TxNext ==
    \/ MainTx
    \/ SupplyBegin
    \/ SupplyBaseToken
    \/ SupplyAllowance
    \/ ApproveSend
    \/ ApproveWait
    \/ SupplySend
    \/ SupplyWait
    \/ WithdrawBegin
    \/ WithdrawBaseToken
    \/ WithdrawSend
    \/ WithdrawWait

\* The balance entry point.
BalanceNext ==
    \/ MainBalance
    \/ CheckBalance
    \/ BalanceBaseToken
    \/ BalanceSymbol
    \/ BalanceDecimals
    \/ BalanceWallet
    \/ BalanceCompound

Next == MonitorNext \/ TxNext \/ BalanceNext

Spec == Init /\ [][Next]_vars

\* The formatter on its own, applied once to one pair of arguments.
FmtInit ==
    /\ config = [compound_version |-> "V3", market_address_ok |-> TRUE,
                 market_name |-> None, liquidity_threshold |-> <<0>>,
                 notification_enabled |-> None, private_key |-> None]
    /\ cli = [command |-> None]
    /\ pc = "format_balance"
    /\ threshold = 0
    /\ locals = <<>>
    /\ result = None
    /\ alert = None
    /\ calls = <<>>
    /\ posted = <<>>
    /\ send_ret = None
    /\ fails = 0
    /\ args = None
    /\ txs = <<>>
    /\ chain_allowance = 0
    /\ exit_err = None
    /\ checks = 0
    /\ address_file = None
    /\ idx = 0
    /\ reports = <<>>
    /\ fmt \in {Some([balance |-> b, divisor |-> d, out |-> None]) :
                   b \in FmtBalances, d \in FmtDivisors}

FmtSpec == FmtInit /\ [][FormatBalance]_vars

\* The process started as the monitor.
MonitorInit ==
    /\ Init
    /\ cli.command \in {None, Some("Monitor")}

\* The interval timer fires, and the code between two awaits runs to the next
\* await: run's loop is never starved of its own steps.  Nothing is assumed
\* of the network calls.
FairSpec ==
    /\ MonitorInit
    /\ [][MonitorNext]_vars
    /\ WF_vars(Tick)
    /\ WF_vars(CheckLiquidity)
    /\ WF_vars(RunMatch)

\* ------------------------------------------------------------ properties
\* The iteration's snapshot read succeeded and has been handled by run.
TickDoneOk == pc = "run_tick" /\ IsSome(result) /\ Unwrap(result).ok

\* The iteration's snapshot read failed.
ReadFailed == IsSome(result) /\ ~Unwrap(result).ok

Enabled == config.notification_enabled \in {None, Some(TRUE)}

\* C1: an iteration whose snapshot read succeeds with available_liquidity
\* below the threshold ends with exactly one send_alert invocation when
\* notifications are enabled (flag true or absent); with notifications
\* disabled send_alert is never invoked, whatever the liquidity.
C1_AlertOncePerQualifyingTick ==
    /\ (TickDoneOk /\ Unwrap(result).liquidity < threshold /\ Enabled)
          => (Len(posted) = 1 /\ IsSome(send_ret))
    /\ Len(posted) <= 1
    /\ ~Enabled => (posted = <<>> /\ send_ret = None /\ pc # "send_alert")

C1_Witness ==
    /\ TickDoneOk
    /\ Unwrap(result).liquidity < threshold
    /\ config.notification_enabled = None
    /\ Len(posted) = 1

\* C2: an alert is constructed, and send_alert invoked, only in an iteration
\* whose snapshot read succeeded with available_liquidity strictly below the
\* threshold; with liquidity >= threshold (equality included) or a failed
\* read, no alert exists and nothing is sent.
C2_AlertOnlyBelowThreshold ==
    (IsSome(alert) \/ posted # <<>> \/ IsSome(send_ret) \/ pc = "send_alert")
        => /\ IsSome(result)
           /\ Unwrap(result).ok
           /\ Unwrap(result).liquidity >= 0
           /\ threshold >= 0
           /\ Unwrap(result).liquidity < threshold

C2_Witness ==
    /\ TickDoneOk
    /\ Unwrap(result).liquidity = threshold
    /\ threshold > 0
    /\ Enabled
    /\ alert = None
    /\ posted = <<>>

\* C3: a failed snapshot read never ends the monitor loop: run's handling of
\* the error leads back to waiting for the next tick, with no exit, and the
\* next iteration's snapshot read is eventually started.
C3_ReadErrorRecoverable ==
    /\ [][(pc = "run_match" /\ ReadFailed)
             => (pc' = "run_tick" /\ exit_err' = None)]_vars
    /\ [](ReadFailed => pc \in {"run_match", "run_tick"})
    /\ (ReadFailed ~> (pc = "check_liquidity" /\ result = None))

C3_Witness == pc = "check_liquidity" /\ fails = MaxFails

SendFailed == IsSome(send_ret) /\ Unwrap(send_ret).ret = "Err"

\* C4: a failed send_alert does not end the monitor loop and is not
\* propagated: run is back waiting for the next tick, the alert was handed to
\* the webhook once and is not sent again in that iteration, and the next
\* iteration is eventually started.
C4_SendErrorRecoverable ==
    /\ [](SendFailed => (pc = "run_tick" /\ exit_err = None /\ Len(posted) = 1))
    /\ [][pc = "send_alert" => pc' = "run_tick"]_vars
    /\ (SendFailed ~> (pc = "check_liquidity" /\ posted = <<>>))

C4_Witness == SendFailed /\ pc = "run_tick"

V3ReadOk == config.compound_version = "V3" /\ IsSome(result) /\ Unwrap(result).ok

\* C5: for a V3 market the available_liquidity of a successful snapshot is
\* the value the base token's balanceOf(market) read returned in that call
\* (the second read), whatever totalSupply and totalBorrow returned.
C5_V3LiquidityIsBalance ==
    V3ReadOk =>
        /\ calls[2] = Call("balanceOf", TRUE)
        /\ Unwrap(result).liquidity = locals[2]

C5_Witness ==
    /\ V3ReadOk
    /\ pc = "run_tick"
    /\ locals[2] # locals[3] - locals[4]
    /\ locals[2] = MaxVal

V2ReadNames == <<"getCash", "totalBorrows", "totalReserves", "symbol">>

\* C7: for a V2 market a failed read makes check_liquidity return an error,
\* ends the read sequence, and leaves the iteration without snapshot or
\* alert; no snapshot exists before the four reads are done; and when all
\* four succeed the snapshot holds exactly the four values read.
C7_V2AllOrNothing ==
    (config.compound_version = "V2" /\ cli.command \in {None, Some("Monitor")}) =>
        /\ \A i \in DOMAIN calls :
             (calls[i].fn # "post" /\ ~calls[i].ok)
                          => /\ i = Len(calls)
                             /\ ReadFailed
                             /\ alert = None
                             /\ posted = <<>>
        /\ pc \in {"v2_get_cash", "v2_total_borrows", "v2_total_reserves", "v2_symbol"}
             => (result = None /\ alert = None /\ Len(calls) < 4)
        /\ (IsSome(result) /\ Unwrap(result).ok) =>
             /\ \A i \in 1..4 : calls[i] = Call(V2ReadNames[i], TRUE)
             /\ Unwrap(result) = [ok |-> TRUE, liquidity |-> locals[1],
                                  borrows |-> locals[2], reserves |-> locals[3],
                                  symbol |-> locals[4]]

C7_Witness ==
    /\ config.compound_version = "V2"
    /\ TickDoneOk
    /\ Unwrap(result).liquidity = 1
    /\ Unwrap(result).borrows = 0
    /\ Unwrap(result).reserves = 1
    /\ Len(posted) = 1

\* C8: with version V2 configured, a supply or withdraw command fails with an
\* error without any network call or transaction, and supply_v3 /
\* withdraw_v3 are never entered.
C8_V2RejectsSupplyWithdraw ==
    (config.compound_version = "V2" /\ cli.command \in TxCommands) =>
        /\ pc \in {"new", "main_match", "exit_err"}
        /\ pc = "exit_err" <=> IsSome(exit_err)
        /\ calls = <<>>
        /\ txs = <<>>
        /\ args = None

C8_Witness ==
    /\ config.compound_version = "V2"
    /\ cli.command = Some("Supply")
    /\ cli.private_key = Some("flagkey")
    /\ exit_err = Some("Supply/withdraw is only supported for Compound V3")

\* Positions of the calls named f in the call log.
CallsOf(f) == {i \in DOMAIN calls : calls[i].fn = f}
OkCallsOf(f) == {i \in CallsOf(f) : calls[i].ok}
TxsOf(f) == {i \in DOMAIN txs : txs[i].fn = f}

\* C9: in supply, an approve transaction is submitted only after an allowance
\* read below the amount, it is for the maximum 256-bit value, and its receipt
\* is awaited before the supply transaction is submitted; an allowance at or
\* above the amount leads to no approve; at most one approve and one supply
\* are submitted, and the supply never precedes the allowance read.
C9_SupplyApprovalOrdered ==
    cli.command = Some("Supply") =>
        /\ Cardinality(CallsOf("approve.send")) <= 1
        /\ Cardinality(CallsOf("supply.send")) <= 1
        /\ Cardinality(TxsOf("approve")) <= 1
        /\ Cardinality(TxsOf("supply")) <= 1
        /\ \A j \in CallsOf("approve.send") \cup CallsOf("supply.send") :
             \E i \in OkCallsOf("allowance") : i < j
        /\ OkCallsOf("allowance") # {} =>
             IF locals[2] < Unwrap(args).amount
             THEN /\ pc \notin {"supply_send", "supply_wait", "exit_ok"}
                       => (pc = "approve_send" \/ CallsOf("approve.send") # {})
                  /\ \A i \in TxsOf("approve") : txs[i].amount = U256Max
                  /\ \A j \in CallsOf("supply.send") :
                       \E k \in OkCallsOf("approve.send") :
                         \E i \in OkCallsOf("approve.wait") : k < i /\ i < j
                  /\ pc \in {"supply_send", "supply_wait", "exit_ok"}
                       => (OkCallsOf("approve.wait") # {} /\ TxsOf("approve") # {})
             ELSE /\ CallsOf("approve.send") = {}
                  /\ TxsOf("approve") = {}
                  /\ pc # "approve_send"

C9_Witness ==
    /\ cli.command = Some("Supply")
    /\ pc = "exit_ok"
    /\ Len(txs) = 2
    /\ txs[1].fn = "approve"
    /\ txs[2].fn = "supply"
    /\ txs[2].amount = MaxVal

\* C10: in supply and withdraw a failed sub-step is the last step taken: the
\* invocation ends with an error, no step follows it, none is issued twice;
\* an invalid key or market address ends it before any network call; no
\* supply transaction follows an approve that failed or got no receipt.
C10_TxFailureAborts ==
    cli.command \in TxCommands =>
        /\ \A i \in DOMAIN calls :
             ~calls[i].ok => (i = Len(calls) /\ pc = "exit_err")
        /\ \A i, j \in DOMAIN calls : calls[i].fn = calls[j].fn => i = j
        /\ pc = "exit_err" <=> IsSome(exit_err)
        /\ pc = "exit_ok" => \A i \in DOMAIN calls : calls[i].ok
        /\ (IsSome(args) /\ Unwrap(args).private_key \in {"flagbad", "cfgbad"})
             => (pc \in {"supply_v3", "withdraw_v3", "exit_err"} /\ calls = <<>>)
        /\ ~config.market_address_ok => (calls = <<>> /\ txs = <<>>)
        /\ Len(txs) = Cardinality({i \in DOMAIN calls :
                                     calls[i].ok /\ calls[i].fn \in
                                       {"approve.send", "supply.send", "withdraw.send"}})
        /\ (\E i \in CallsOf("approve.wait") : ~calls[i].ok) => TxsOf("supply") = {}

C10_Witness ==
    /\ cli.command = Some("Supply")
    /\ pc = "exit_err"
    /\ \E i \in CallsOf("approve.wait") : calls[i].status = "dropped"
    /\ Len(txs) = 1

\* The names of the calls in the call log, in order.
CallNames == [i \in DOMAIN calls |-> calls[i].fn]

\* C11: withdraw never reads the token allowance and never submits an
\* approve (or supply) transaction: the base token is resolved, at most one
\* withdraw transaction is submitted, for the requested amount and the
\* resolved token, after that read; a withdraw that ends well made exactly
\* the calls baseToken, withdraw.send, withdraw.wait; and no step of it
\* changes the allowance on chain.
C11_WithdrawNeverApproves ==
    /\ [](cli.command = Some("Withdraw") =>
            /\ CallsOf("allowance") = {}
            /\ CallsOf("approve.send") = {}
            /\ CallsOf("approve.wait") = {}
            /\ TxsOf("approve") = {}
            /\ TxsOf("supply") = {}
            /\ Len(txs) <= 1
            /\ \A i \in DOMAIN txs :
                 /\ txs[i].fn = "withdraw"
                 /\ txs[i].amount = Unwrap(FromDecStr(cli.amount))
                 /\ txs[i].asset = locals[1]
                 /\ calls[1] = Call("baseToken", TRUE)
                 /\ calls[2] = Call("withdraw.send", TRUE)
            /\ pc = "exit_ok" =>
                 /\ CallNames = <<"baseToken", "withdraw.send", "withdraw.wait">>
                 /\ Len(txs) = 1)
    /\ [][cli.command = Some("Withdraw") => chain_allowance' = chain_allowance]_vars

C11_Witness ==
    /\ cli.command = Some("Withdraw")
    /\ pc = "exit_ok"
    /\ Len(txs) = 1
    /\ txs[1].amount = MaxVal
    /\ chain_allowance = 1

\* check_balance_batch has loaded monitor_address.json and is at work on it.
BatchRunning ==
    /\ cli.command = Some("Balance")
    /\ cli.address = None
    /\ IsSome(address_file)
    /\ pc \notin {"new", "main_match"}
    /\ exit_err # Some("Invalid liquidity threshold")

\* The lookup whose calls are in the call log got through all its steps.
LookupSucceeded(entry) ==
    /\ AddressValid(entry.address)
    /\ config.market_address_ok
    /\ Len(calls) = 5
    /\ \A i \in DOMAIN calls : calls[i].ok

\* C12: check_balance_batch isolates the failure of an entry: the entries
\* are looked up one by one in the order of the list, each at most once; the
\* outcome recorded for an entry is a failure if and only if its lookup
\* failed (invalid address, invalid market address, failed read) and is its
\* report otherwise; an entry with an invalid address always fails; the
\* batch never returns an error, and when it returns every entry of the
\* list has its outcome.
C12_BatchIsolatesFailures ==
    BatchRunning =>
        LET entries == Unwrap(address_file) IN
        /\ pc # "exit_err"
        /\ exit_err = None
        /\ Len(reports) <= Len(entries)
        /\ \A i \in DOMAIN reports :
             /\ reports[i].address = entries[i].address
             /\ reports[i].name = Some(entries[i].name)
             /\ ~AddressValid(entries[i].address)
                  => (~reports[i].ok /\ reports[i].err = "Invalid address")
        /\ entries # <<>> => Len(reports) = idx - 1
        /\ (pc \in {"check_balance", "exit_ok"} /\ reports # <<>>) =>
             (reports[Len(reports)].ok <=> LookupSucceeded(entries[Len(reports)]))
        /\ pc = "exit_ok" => Len(reports) = Len(entries)
        /\ pc = "check_balance" => idx <= Len(entries)

C12_Witness ==
    /\ BatchRunning
    /\ pc = "exit_ok"
    /\ Len(reports) = 2
    /\ ~reports[1].ok
    /\ reports[1].err = "call failed: decimals"
    /\ reports[2].ok
    /\ reports[2].wallet_formatted = <<1, Dot, 5>>

\* C13: supply and withdraw take their credential from --private-key when it
\* is given, whatever the configuration holds, and otherwise from the
\* configuration's private_key; supply_v3 / withdraw_v3 run with that key
\* and sign every transaction with it; with neither given, main fails
\* before supply_v3 / withdraw_v3 is called and without any network call.
C13_KeyResolutionOrder ==
    cli.command \in TxCommands =>
        /\ IsSome(args) =>
             /\ IsSome(cli.private_key) \/ IsSome(config.private_key)
             /\ Unwrap(args).private_key =
                  IF IsSome(cli.private_key) THEN Unwrap(cli.private_key)
                  ELSE Unwrap(config.private_key)
             /\ \A i \in DOMAIN txs : txs[i].signer = Unwrap(args).private_key
        /\ (cli.private_key = None /\ config.private_key = None) =>
             /\ args = None
             /\ calls = <<>>
             /\ txs = <<>>
             /\ pc \in {"new", "main_match", "exit_err"}
             /\ pc = "exit_err" <=> IsSome(exit_err)

C13_Witness ==
    /\ cli.command = Some("Supply")
    /\ cli.private_key = Some("flagkey")
    /\ config.private_key = Some("cfgbad")
    /\ pc = "exit_ok"
    /\ txs # <<>>
    /\ \A i \in DOMAIN txs : txs[i].signer = "flagkey"

\* C14: one invocation of send_alert makes exactly one outbound request, and
\* returns an error if and only if that request failed at the network
\* level; with any response received, success or non-success status, it
\* returns Ok.
C14_SendAlertOneRequest ==
    /\ IsSome(send_ret) =>
         /\ Len(posted) = 1
         /\ Cardinality(CallsOf("post")) = 1
         /\ calls[Len(calls)] =
              Call("post", Unwrap(send_ret).response # "network_error")
         /\ Unwrap(send_ret).ret = "Err"
              <=> Unwrap(send_ret).response = "network_error"
         /\ Unwrap(send_ret).response \in {"success", "non_success"}
              => Unwrap(send_ret).ret = "Ok"
    /\ send_ret = None => (posted = <<>> /\ CallsOf("post") = {})

C14_Witness ==
    /\ IsSome(send_ret)
    /\ Unwrap(send_ret).response = "non_success"
    /\ Unwrap(send_ret).ret = "Ok"
    /\ Len(posted) = 1

\* Reading a formatted amount back: the digits before the '.', and after it.
DotsOf(s) == {i \in DOMAIN s : s[i] = Dot}
WholeDigits(s) ==
    IF DotsOf(s) = {} THEN s ELSE SubSeq(s, 1, (CHOOSE i \in DotsOf(s) : TRUE) - 1)
FractionOf(s) ==
    IF DotsOf(s) = {} THEN <<>>
    ELSE SubSeq(s, (CHOOSE i \in DotsOf(s) : TRUE) + 1, Len(s))

RECURSIVE DigitsValue(_)
DigitsValue(s) ==
    IF s = <<>> THEN 0
    ELSE 10 * DigitsValue(SubSeq(s, 1, Len(s) - 1)) + s[Len(s)]

\* s reads as W.F with W * D + F * D = R exactly: with n fraction digits f,
\* (W * 10^n + f) * D = R * 10^n.
ParsesBackTo(s, R, D) ==
    /\ Cardinality(DotsOf(s)) <= 1
    /\ \A i \in DOMAIN s : s[i] = Dot \/ s[i] \in 0..9
    /\ WholeDigits(s) # <<>>
    /\ LET n == Len(FractionOf(s)) IN
         (DigitsValue(WholeDigits(s)) * (10 ^ n) + DigitsValue(FractionOf(s))) * D
            = R * (10 ^ n)

Formatted == pc = "formatted" /\ IsSome(Unwrap(fmt).out)

IsPowerOfTen(d) == \E k \in 0..9 : d = 10 ^ k

\* C15 as claimed: for every raw amount R and every divisor D > 0 the
\* formatted amount parses back to R exactly, and with D = 0 it is the
\* decimal string of R.
C15_RoundTripAnyDivisor ==
    Formatted =>
        LET f == Unwrap(fmt) IN
        IF f.divisor = 0 THEN Unwrap(f.out) = to_string(f.balance)
        ELSE ParsesBackTo(Unwrap(f.out), f.balance, f.divisor)

\* C15, amended: for every raw amount R and every divisor D that is a power
\* of ten the formatted amount parses back to R exactly, and with D = 0 it
\* is the decimal string of R.
C15_RoundTripPowerOfTen ==
    Formatted =>
        LET f == Unwrap(fmt) IN
        /\ f.divisor = 0 => Unwrap(f.out) = to_string(f.balance)
        /\ IsPowerOfTen(f.divisor)
             => ParsesBackTo(Unwrap(f.out), f.balance, f.divisor)

C15_Witness ==
    /\ Formatted
    /\ Unwrap(fmt).balance = 105
    /\ Unwrap(fmt).divisor = 100
    /\ Unwrap(Unwrap(fmt).out) = <<1, Dot, 0, 5>>

\* C16: an iteration of the monitor loop calls check_liquidity exactly once
\* and retries nothing: no read is issued twice in an iteration; once the
\* read or the send of the alert has failed, no further read or send is
\* made before the next tick; and a new read starts only from the tick.
C16_OneReadPerTick ==
    /\ [](checks <= 1)
    /\ []((pc \in {"run_match", "send_alert"} \/ IsSome(result)) => checks = 1)
    /\ [](cli.command \in {None, Some("Monitor")} =>
            \A i, j \in DOMAIN calls : calls[i].fn = calls[j].fn => i = j)
    /\ [][((ReadFailed \/ SendFailed) /\ pc # "run_tick")
             => (calls' = calls /\ posted' = posted /\ checks' = checks)]_vars
    /\ [][pc = "run_tick" => (pc' = "check_liquidity" /\ checks' = 0)]_vars
    /\ [][checks' = checks + 1 => (pc = "check_liquidity" /\ result = None)]_vars

C16_Witness ==
    /\ pc = "run_tick"
    /\ ReadFailed
    /\ checks = 1
    /\ fails = 1
    /\ Len(calls) = 3

\* C17: an alert exists, and is sent, only in an iteration that read a
\* snapshot, and is built from that snapshot: the snapshot holds the values
\* this iteration's reads returned, the alert's amounts are their decimal
\* strings and its threshold is the configured one; what is sent is that
\* alert, at most once; nothing built in an earlier iteration is held or
\* sent in a later one.
C17_AlertFromCurrentSnapshot ==
    /\ Len(posted) <= 1
    /\ (IsSome(alert) \/ posted # <<>>) =>
         /\ checks = 1
         /\ IsSome(result)
         /\ Unwrap(result).ok
         /\ IsSome(alert)
         /\ Unwrap(result).liquidity =
              IF config.compound_version = "V2" THEN locals[1] ELSE locals[2]
         /\ Unwrap(result).borrows =
              IF config.compound_version = "V2" THEN locals[2] ELSE locals[4]
         /\ Len(locals) = IF config.compound_version = "V2" THEN 4 ELSE 8
         /\ Unwrap(alert) =
              [market_address |-> "market",
               market_symbol |-> Unwrap(result).symbol,
               available_liquidity |-> to_string(Unwrap(result).liquidity),
               total_borrows |-> to_string(Unwrap(result).borrows),
               total_reserves |-> to_string(Unwrap(result).reserves),
               threshold |-> config.liquidity_threshold,
               message |-> <<to_string(Unwrap(result).liquidity),
                             config.liquidity_threshold>>]
         /\ \A i \in DOMAIN posted : posted[i] = Unwrap(alert)
    /\ pc \in {"check_liquidity", "run_match"} => (alert = None /\ posted = <<>>)

C17_Witness ==
    /\ pc = "run_tick"
    /\ config.compound_version = "V3"
    /\ Len(posted) = 1
    /\ locals[3] = MaxVal
    /\ posted[1].available_liquidity = <<1>>
    /\ posted[1].total_borrows = <<0>>
    /\ posted[1].threshold = to_string(MaxVal)

\* The positions of each entry point.
MonitorPcs ==
    {"run_tick", "check_liquidity", "v2_get_cash", "v2_total_borrows",
     "v2_total_reserves", "v2_symbol", "v3_base_token", "v3_balance_of",
     "v3_total_supply", "v3_total_borrow", "v3_get_reserves", "v3_get_utilization",
     "v3_get_supply_rate", "v3_get_borrow_rate", "run_match", "send_alert"}
SupplyPcs ==
    {"supply_v3", "supply_base_token", "supply_allowance", "approve_send",
     "approve_wait", "supply_send", "supply_wait"}
WithdrawPcs == {"withdraw_v3", "withdraw_base_token", "withdraw_send", "withdraw_wait"}
BalancePcs ==
    {"check_balance", "balance_base_token", "balance_symbol", "balance_decimals",
     "balance_wallet", "balance_compound"}

\* Transactions submitted whose confirmation wait has not returned.
InFlight ==
    Cardinality(OkCallsOf("approve.send") \cup OkCallsOf("supply.send")
                   \cup OkCallsOf("withdraw.send"))
      - Cardinality(CallsOf("approve.wait") \cup CallsOf("supply.wait")
                       \cup CallsOf("withdraw.wait"))

\* C18: one invocation runs one entry point, the one the command selects:
\* the process is inside the monitor loop, supply, withdraw or the balance
\* lookup only under the matching command, and only the selected entry
\* point leaves any trace (snapshot reads and alerts for the monitor,
\* transactions for supply / withdraw, reports for balance); a supply never
\* submits a withdraw nor a withdraw a supply or approve; at most one
\* transaction is awaiting confirmation at any time.
C18_OneEntryPoint ==
    /\ pc \in MonitorPcs => cli.command \in {None, Some("Monitor")}
    /\ pc \in SupplyPcs => cli.command = Some("Supply")
    /\ pc \in WithdrawPcs => cli.command = Some("Withdraw")
    /\ pc \in BalancePcs => cli.command = Some("Balance")
    /\ cli.command \in {None, Some("Monitor")} =>
         (args = None /\ txs = <<>> /\ reports = <<>> /\ idx = 0 /\ pc # "exit_ok")
    /\ cli.command \in TxCommands =>
         /\ checks = 0 /\ result = None /\ alert = None /\ posted = <<>>
         /\ reports = <<>> /\ idx = 0
         /\ \A i \in DOMAIN txs :
              txs[i].fn \in IF cli.command = Some("Supply")
                            THEN {"approve", "supply"} ELSE {"withdraw"}
    /\ cli.command = Some("Balance") =>
         /\ checks = 0 /\ result = None /\ alert = None /\ posted = <<>>
         /\ args = None /\ txs = <<>>
         /\ IsSome(cli.address) => (idx = 0 /\ Len(reports) <= 1)
    /\ InFlight \in {0, 1}
    /\ InFlight = 1 => pc \in {"approve_wait", "supply_wait", "withdraw_wait"}

C18_Witness ==
    /\ cli.command = Some("Balance")
    /\ IsSome(cli.address)
    /\ pc = "exit_ok"
    /\ Len(reports) = 1
    /\ reports[1].ok
    /\ calls # <<>>

\* C19 as claimed: for every raw reserves value r read by a V3 snapshot read,
\* the read does not end abnormally on it, and a successful snapshot has
\* total_reserves = max(r, 0), for non-negative r up to the largest signed
\* 256-bit value.
C19_ReservesSurfacedExactly ==
    (cli.command \in {None, Some("Monitor")} /\ config.compound_version = "V3"
       /\ Len(locals) >= 5) =>
        /\ ~(pc = "panicked" /\ Len(locals) = 5)
        /\ V3ReadOk =>
             Unwrap(result).reserves = IF locals[5] > 0 THEN locals[5] ELSE 0

V3ReadNames ==
    <<"baseToken", "balanceOf", "totalSupply", "totalBorrow", "getReserves",
      "getUtilization", "getSupplyRate", "getBorrowRate">>

\* The contract reads of this iteration, in order (the webhook post left out).
ReadsOf(log) == SelectSeq(log, LAMBDA call : call.fn # "post")

\* C20: the V3 snapshot read is fail-fast: its reads are issued in the fixed
\* order, each at most once; a failed read is the last one, check_liquidity
\* returns an error and no snapshot, and no alert follows; a snapshot is
\* returned only after all eight reads succeeded.  With a malformed market
\* address, V2 or V3, check_liquidity fails before any contract read.
C20_V3FailFast ==
    cli.command \in {None, Some("Monitor")} =>
        /\ config.compound_version = "V3" =>
             LET reads == ReadsOf(calls) IN
             /\ Len(reads) <= 8
             /\ \A i \in DOMAIN reads : reads[i].fn = V3ReadNames[i]
             /\ \A i \in DOMAIN reads :
                  ~reads[i].ok => /\ i = Len(reads)
                                  /\ ReadFailed
                                  /\ alert = None
                                  /\ posted = <<>>
                                  /\ pc \in {"run_match", "run_tick"}
             /\ (IsSome(result) /\ Unwrap(result).ok) =>
                  (Len(reads) = 8 /\ \A i \in DOMAIN reads : reads[i].ok)
             /\ (ReadFailed /\ config.market_address_ok) =>
                  (reads # <<>> /\ ~reads[Len(reads)].ok)
        /\ ~config.market_address_ok =>
             /\ calls = <<>>
             /\ locals = <<>>
             /\ IsSome(result) => Unwrap(result) = Err("Invalid market address")
             /\ pc \in {"new", "main_match", "exit_err", "run_tick",
                        "check_liquidity", "run_match"}

C20_Witness ==
    /\ config.compound_version = "V3"
    /\ pc = "run_tick"
    /\ Len(calls) = 6
    /\ calls[6] = Call("getUtilization", FALSE)
    /\ Unwrap(result) = Err("Failed to get utilization (V3)")
    /\ locals[5] = -1

\* C21 as claimed: for a V3 market the values the utilization, supply-rate
\* and borrow-rate reads return have no part in the decision: once the
\* eight reads have returned, the iteration ends with an alert built exactly
\* when the base-token balance is below the threshold, and sent exactly
\* when, moreover, notifications are enabled.
C21_RatesDoNotDecide ==
    (cli.command \in {None, Some("Monitor")} /\ config.compound_version = "V3"
       /\ Len(locals) = 8) =>
        /\ pc # "panicked"
        /\ pc = "run_tick" =>
             /\ IsSome(alert) <=> locals[2] < threshold
             /\ Len(posted) = 1 <=> (locals[2] < threshold /\ Enabled)

\* n zeros.
Zeros(n) == [i \in 1..n |-> 0]

Max(a, b) == IF a >= b THEN a ELSE b

\* C22: for every R and every D > 0 the output of format_balance has a
\* decimal point if and only if R mod D is not zero; then the part before
\* the point is the decimal string of R div D, and the part after it is not
\* empty, does not end in 0, and is the remainder written with zeros on the
\* left up to one digit less than D has, less its trailing zeros; with
\* R mod D zero the output is the decimal string of R div D.
C22_OutputShape ==
    (Formatted /\ Unwrap(fmt).divisor > 0) =>
        LET R == Unwrap(fmt).balance
            D == Unwrap(fmt).divisor
            out == Unwrap(Unwrap(fmt).out)
            frac == FractionOf(out)
            width == Max(Len(to_string(D)) - 1, Len(to_string(R % D)))
        IN  /\ DotsOf(out) # {} <=> R % D # 0
            /\ Cardinality(DotsOf(out)) <= 1
            /\ WholeDigits(out) = to_string(R \div D)
            /\ R % D = 0 => out = to_string(R \div D)
            /\ R % D # 0 =>
                 /\ frac # <<>>
                 /\ frac[Len(frac)] # 0
                 /\ \A i \in DOMAIN frac : frac[i] \in 0..9
                 /\ Len(frac) <= width
                 /\ frac \o Zeros(width - Len(frac))
                      = Zeros(width - Len(to_string(R % D))) \o to_string(R % D)

C22_Witness ==
    /\ Formatted
    /\ Unwrap(fmt).balance = 110
    /\ Unwrap(fmt).divisor = 100
    /\ Unwrap(Unwrap(fmt).out) = <<1, Dot, 1>>

====
